---- MODULE Spec2Model ----
(***************************************************************************)
(* A model of rainbow-smoke (src/src/main.rs): every colour of a catalog   *)
(* is placed once on a square grid, each at the frontier cell whose        *)
(* desired colour (the mean of its filled 8-neighbours) is nearest.        *)
(*                                                                         *)
(* The grid side (1 << 12 in the source) and the catalog length (256^3)    *)
(* are scaled down to S and N.  Perceptual coordinates are fixed-point     *)
(* integers, multiples of Unit = lcm(1..8), so that the division of a sum  *)
(* of up to eight of them by their count is exact.                         *)
(*                                                                         *)
(* The k-d tree is the external kiddo crate; it is modelled by its         *)
(* interface: a bag of (point, item) entries with add, remove (every       *)
(* entry equal in point and item) and nearest_one.                         *)
(***************************************************************************)
EXTENDS Integers, Sequences, FiniteSets, Bags, TLC

VARIABLES
    S,          \* grid side: buf.num_rows() = buf.num_cols()
    oklabs,     \* the catalog's perceptual coordinates, in processing order
    buf,        \* the grid: cell -> None or Some(color_idx)
    available,  \* the map: frontier cell -> desired colour
    kdtree,     \* the index: a bag of <<point, item>> entries
    color_idx,  \* position of the placement loop in the catalog
    cur,        \* the (x, y) of the current iteration
    todo,       \* what is left of the empty_neighbors iterator
    pc,         \* position in main
    ops         \* how many calls of each kind main has made so far

vars == <<S, oklabs, buf, available, kdtree, color_idx, cur, todo, pc, ops>>

----------------------------------------------------------------------------
(* Bounds of the model *)

MaxS == 3

Levels == 3

MaxStride == 2

MaxOffset == 2

MaxSlack == 1

PackEdge == 2

WideS == 4

(* Program constants *)

ShiftBits == 12

Unit == 3 * 5 * 7 * 8

----------------------------------------------------------------------------
(* Option<usize> *)

None == <<>>

Some(v) == <<v>>

Sides == 1..MaxS

Cells(s) == (0..(s - 1)) \X (0..(s - 1))

N == Len(oklabs)

(* Nothing called yet: nearest_one, kdtree.remove at line 95, the upsert of *)
(* lines 100-103, the assignment of line 97, the emission of lines 107-111. *)
NoOps == [query |-> 0, remove |-> 0, insert |-> 0, set |-> 0, emit |-> 0]

Count(kind) == [ops EXCEPT ![kind] = @ + 1]

----------------------------------------------------------------------------
(* Coordinate packing *)

RECURSIVE BitOr(_, _)
BitOr(a, b) ==
    IF a = 0 THEN b
    ELSE IF b = 0 THEN a
    ELSE (IF (a % 2 = 1) \/ (b % 2 = 1) THEN 1 ELSE 0)
         + 2 * BitOr(a \div 2, b \div 2)

RECURSIVE BitAnd(_, _)
BitAnd(a, b) ==
    IF a = 0 \/ b = 0 THEN 0
    ELSE (IF (a % 2 = 1) /\ (b % 2 = 1) THEN 1 ELSE 0)
         + 2 * BitAnd(a \div 2, b \div 2)

Shl(a, k) == a * (2 ^ k)

Shr(a, k) == a \div (2 ^ k)

(* coord_to_int with one bit too few reserved for y. *)
coord_to_intNarrow(x, y) == BitOr(Shl(x, ShiftBits - 1), y)

coord_to_int(x, y) == BitOr(Shl(x, ShiftBits), y)

(* int_to_coord with the two halves of the key in the wrong order. *)
int_to_coordSwapped(i) == <<BitAnd(i, Shl(1, ShiftBits) - 1), Shr(i, ShiftBits)>>

int_to_coord(i) == <<Shr(i, ShiftBits), BitAnd(i, Shl(1, ShiftBits) - 1)>>

----------------------------------------------------------------------------
(* Grid walk *)

NEIGHBORS ==
    << <<0, 1>>, <<1, 0>>, <<0, -1>>, <<-1, 0>>,
       <<1, 1>>, <<-1, -1>>, <<-1, 1>>, <<1, -1>> >>

InGrid(c, s) == c[1] >= 0 /\ c[1] < s /\ c[2] >= 0 /\ c[2] < s

(* neighbors with the upper bound tested by <= instead of <. *)
neighborsInclusive(x, y, s) ==
    LET moved == [k \in 1..Len(NEIGHBORS) |->
                    <<x + NEIGHBORS[k][1], y + NEIGHBORS[k][2]>>]
    IN  SelectSeq(moved, LAMBDA c : c[1] >= 0 /\ c[1] <= s /\ c[2] >= 0 /\ c[2] <= s)

(* The cells neighbors(x, y, data) yields, in the order it yields them. *)
neighbors(x, y, s) ==
    LET moved == [k \in 1..Len(NEIGHBORS) |->
                    <<x + NEIGHBORS[k][1], y + NEIGHBORS[k][2]>>]
    IN  SelectSeq(moved, LAMBDA c : InGrid(c, s))

(* empty_neighbors without its filter. *)
empty_neighborsUnfiltered(x, y, data, s) == neighbors(x, y, s)

(* empty_neighbors with its test inverted: the filled neighbours. *)
empty_neighborsInverted(x, y, data, s) ==
    SelectSeq(neighbors(x, y, s), LAMBDA c : data[c] # None)

empty_neighbors(x, y, data, s) ==
    SelectSeq(neighbors(x, y, s), LAMBDA c : data[c] = None)

(* The colours of the filled neighbours, in iteration order (the flat_map). *)
FilledColors(x, y, data, colors, s) ==
    LET filled == SelectSeq(neighbors(x, y, s), LAMBDA c : data[c] # None)
    IN  [k \in 1..Len(filled) |-> colors[data[filled[k]][1] + 1]]

RECURSIVE SumAxis(_, _)
SumAxis(vs, axis) ==
    IF vs = <<>> THEN 0 ELSE vs[1][axis] + SumAxis(Tail(vs), axis)

(* target_color with the count left at 1.0: the sum instead of the mean. *)
target_colorSum(x, y, data, colors, s) ==
    LET vs == FilledColors(x, y, data, colors, s)
    IN  IF Len(vs) = 0 THEN None
        ELSE Some(<<SumAxis(vs, 1), SumAxis(vs, 2), SumAxis(vs, 3)>>)

(* target_color: None stands for the panic of unwrap() on an empty reduce. *)
target_color(x, y, data, colors, s) ==
    LET vs == FilledColors(x, y, data, colors, s)
        c  == Len(vs)
    IN  IF c = 0 THEN None
        ELSE Some(<<SumAxis(vs, 1) \div c, SumAxis(vs, 2) \div c, SumAxis(vs, 3) \div c>>)

----------------------------------------------------------------------------
(* The nearest-neighbour index *)

squared_euclidean(a, b) ==
    (a[1] - b[1]) * (a[1] - b[1]) + (a[2] - b[2]) * (a[2] - b[2])
    + (a[3] - b[3]) * (a[3] - b[3])

KdAdd(tree, point, item) == tree (+) SetToBag({<<point, item>>})

(* A removal that finds no entry to remove. *)
KdRemoveNothing(tree, point, item) == tree

KdRemove(tree, point, item) ==
    LET e == <<point, item>>
        keep == BagToSet(tree) \ {e}
    IN  [k \in keep |-> tree[k]]

(* The items nearest_one may return on a non-empty index. *)
NearestItems(tree, query) ==
    LET es == BagToSet(tree)
    IN  { e[2] : e \in { f \in es :
            \A g \in es : squared_euclidean(query, f[1])
                           <= squared_euclidean(query, g[1]) } }

(* On an empty index the query finds no entry: it panics or returns its *)
(* initial best, the zero item.                                         *)
EmptyQueryOutcomes == {"panic", "zero"}

----------------------------------------------------------------------------
(* Initial states *)

(* gen_colors, lines 9-16: the first n colours of the nested channel loops. *)
Ramp(n) ==
    [j \in 1..n |-> <<(j - 1) \div (Levels * Levels),
                      ((j - 1) \div Levels) % Levels,
                      (j - 1) % Levels>>]

(* Line 22: srgb_to_oklab stands as a fixed injective map onto the lattice. *)
srgb_to_oklab(rgb) ==
    <<Unit * (rgb[1] + rgb[2] + rgb[3]),
      Unit * (rgb[1] - rgb[2]),
      Unit * (rgb[2] - rgb[3])>>

RECURSIVE GCD(_, _)
GCD(a, b) == IF b = 0 THEN a ELSE GCD(b, a % b)

(* Line 18: the shuffles considered, the permutations i -> stride * i + offset. *)
Shuffles(n) ==
    { [i \in 1..n |-> (((i - 1) * st + off) % n) + 1] :
        st \in { u \in 1..MaxStride : GCD(u, n) = 1 }, off \in 0..MaxOffset }

(* gen_colors: the perceptual coordinates of the shuffled catalog. *)
Catalogs(n) ==
    { [i \in 1..n |-> srgb_to_oklab(Ramp(n)[p[i]])] : p \in Shuffles(n) }

InitWith(s, colors) ==
    /\ S = s
    /\ oklabs = colors
    /\ buf = [c \in Cells(s) |-> None]
    /\ available = <<>>
    /\ kdtree = EmptyBag
    /\ color_idx = 0
    /\ cur = <<0, 0>>
    /\ todo = <<>>
    /\ pc = "loop"
    /\ ops = NoOps

(* The reference configuration: the catalog fills the grid exactly. *)
Init == \E s \in Sides : \E colors \in Catalogs(s * s) : InitWith(s, colors)

----------------------------------------------------------------------------
(* main *)

(* The choice of (x, y) with the query made for the previous catalog colour. *)
ChooseForPreviousColor ==
    /\ pc = "loop"
    /\ color_idx < N
    /\ IF color_idx = 0
       THEN /\ cur' = <<S \div 2, S \div 2>>
            /\ pc' = "remove"
            /\ ops' = ops
       ELSE IF BagToSet(kdtree) = {}
       THEN /\ pc' = "abort" /\ cur' = cur /\ ops' = Count("query")
       ELSE \E i \in NearestItems(kdtree, oklabs[color_idx]) :
               /\ cur' = int_to_coord(i)
               /\ pc' = "remove"
               /\ ops' = Count("query")
    /\ UNCHANGED <<S, oklabs, buf, available, kdtree, color_idx, todo>>

(* The choice of (x, y) with the seed put at (0, 0) instead of the center. *)
ChooseSeedAtOrigin ==
    /\ pc = "loop"
    /\ color_idx < N
    /\ IF color_idx = 0
       THEN /\ cur' = <<0, 0>>
            /\ pc' = "remove"
            /\ ops' = ops
       ELSE IF BagToSet(kdtree) = {}
       THEN /\ pc' = "abort" /\ cur' = cur /\ ops' = Count("query")
       ELSE \E i \in NearestItems(kdtree, oklabs[color_idx + 1]) :
               /\ cur' = int_to_coord(i)
               /\ pc' = "remove"
               /\ ops' = Count("query")
    /\ UNCHANGED <<S, oklabs, buf, available, kdtree, color_idx, todo>>

(* The choice of (x, y) without the color_idx == 0 case: it always queries. *)
ChooseAlwaysQuery ==
    /\ pc = "loop"
    /\ color_idx < N
    /\ IF BagToSet(kdtree) = {}
       THEN \E o \in EmptyQueryOutcomes :
               /\ IF o = "panic"
                  THEN /\ pc' = "abort" /\ cur' = cur
                  ELSE /\ cur' = int_to_coord(0) /\ pc' = "remove"
               /\ ops' = Count("query")
       ELSE \E i \in NearestItems(kdtree, oklabs[color_idx + 1]) :
               /\ cur' = int_to_coord(i)
               /\ pc' = "remove"
               /\ ops' = Count("query")
    /\ UNCHANGED <<S, oklabs, buf, available, kdtree, color_idx, todo>>

(* Lines 88-93: the loop head and the choice of (x, y). *)
Choose ==
    /\ pc = "loop"
    /\ color_idx < N
    /\ IF color_idx = 0
       THEN /\ cur' = <<S \div 2, S \div 2>>
            /\ pc' = "remove"
            /\ ops' = ops
       ELSE IF BagToSet(kdtree) = {}
       THEN \E o \in EmptyQueryOutcomes :
               /\ IF o = "panic"
                  THEN /\ pc' = "abort" /\ cur' = cur
                  ELSE /\ cur' = int_to_coord(0) /\ pc' = "remove"
               /\ ops' = Count("query")
       ELSE \E i \in NearestItems(kdtree, oklabs[color_idx + 1]) :
               /\ cur' = int_to_coord(i)
               /\ pc' = "remove"
               /\ ops' = Count("query")
    /\ UNCHANGED <<S, oklabs, buf, available, kdtree, color_idx, todo>>

(* Lines 94-96 without line 95: the map forgets (x, y), the index does not. *)
RemoveMapOnly ==
    /\ pc = "remove"
    /\ available' = [c \in DOMAIN available \ {cur} |-> available[c]]
    /\ pc' = "set"
    /\ UNCHANGED <<S, oklabs, buf, kdtree, color_idx, cur, todo, ops>>

(* The iteration without lines 94-96: (x, y) stays in the frontier. *)
RemoveSkipped ==
    /\ pc = "remove"
    /\ pc' = "set"
    /\ UNCHANGED <<S, oklabs, buf, available, kdtree, color_idx, cur, todo, ops>>

(* Lines 94-96 with the coordinates swapped: (y, x) leaves the frontier. *)
RemoveTransposed ==
    /\ pc = "remove"
    /\ LET t == <<cur[2], cur[1]>>
       IN  IF t \in DOMAIN available
           THEN /\ available' = [c \in DOMAIN available \ {t} |-> available[c]]
                /\ kdtree' = KdRemove(kdtree, available[t], coord_to_int(t[1], t[2]))
                /\ ops' = Count("remove")
           ELSE UNCHANGED <<available, kdtree, ops>>
    /\ pc' = "set"
    /\ UNCHANGED <<S, oklabs, buf, color_idx, cur, todo>>

(* Lines 94-96: remove (x, y) from the frontier. *)
Remove ==
    /\ pc = "remove"
    /\ IF cur \in DOMAIN available
       THEN /\ available' = [c \in DOMAIN available \ {cur} |-> available[c]]
            /\ kdtree' = KdRemove(kdtree, available[cur], coord_to_int(cur[1], cur[2]))
            /\ ops' = Count("remove")
       ELSE UNCHANGED <<available, kdtree, ops>>
    /\ pc' = "set"
    /\ UNCHANGED <<S, oklabs, buf, color_idx, cur, todo>>

(* Line 97, and line 99's creation of the iterator. *)
SetCell ==
    /\ pc = "set"
    /\ IF InGrid(cur, S)
       THEN /\ buf' = [buf EXCEPT ![cur] = Some(color_idx)]
            /\ todo' = empty_neighbors(cur[1], cur[2], buf', S)
            /\ pc' = "upsert"
            /\ ops' = Count("set")
       ELSE /\ pc' = "abort"
            /\ UNCHANGED <<buf, todo, ops>>
    /\ UNCHANGED <<S, oklabs, available, kdtree, color_idx, cur>>

(* The index side of the upsert with the removal keyed by the new value. *)
ReindexByNew(tree, old, new, key) ==
    KdAdd(IF old # None THEN KdRemove(tree, new, key) ELSE tree, new, key)

(* Lines 100-103, the index side: old is what available.insert returned. *)
Reindex(tree, old, new, key) ==
    KdAdd(IF old # None THEN KdRemove(tree, old[1], key) ELSE tree, new, key)

(* Lines 100-103: one pass of the inner loop. *)
Upsert ==
    /\ pc = "upsert"
    /\ todo # <<>>
    /\ LET n   == Head(todo)
           key == coord_to_int(n[1], n[2])
           new == target_color(n[1], n[2], buf, oklabs, S)
       IN  IF new = None
           THEN /\ pc' = "abort"
                /\ UNCHANGED <<available, kdtree, todo, ops>>
           ELSE /\ available' = [c \in DOMAIN available \cup {n} |->
                                   IF c = n THEN new[1] ELSE available[c]]
                /\ kdtree' = Reindex(kdtree,
                                     IF n \in DOMAIN available
                                     THEN Some(available[n]) ELSE None,
                                     available'[n], key)
                /\ todo' = Tail(todo)
                /\ pc' = "upsert"
                /\ ops' = Count("insert")
    /\ UNCHANGED <<S, oklabs, buf, color_idx, cur>>

(* The end of an iteration that does not move on to the next colour. *)
EndIterationNoAdvance ==
    /\ pc = "upsert"
    /\ todo = <<>>
    /\ pc' = "loop"
    /\ UNCHANGED <<S, oklabs, buf, available, kdtree, color_idx, cur, todo, ops>>

(* Line 105: the end of one iteration. *)
EndIteration ==
    /\ pc = "upsert"
    /\ todo = <<>>
    /\ color_idx' = color_idx + 1
    /\ pc' = "loop"
    /\ UNCHANGED <<S, oklabs, buf, available, kdtree, cur, todo, ops>>

(* Emission that does not wait for the placement loop to end. *)
EmitEarly ==
    /\ pc = "loop"
    /\ \E saved \in BOOLEAN :
          pc' = IF (\A c \in Cells(S) : buf[c] # None) /\ saved
                THEN "verify" ELSE "abort"
    /\ ops' = Count("emit")
    /\ UNCHANGED <<S, oklabs, buf, available, kdtree, color_idx, cur, todo>>

(* Lines 107-111: every cell is unwrapped, then the image is saved. *)
Emit ==
    /\ pc = "loop"
    /\ color_idx = N
    /\ \E saved \in BOOLEAN :
          pc' = IF (\A c \in Cells(S) : buf[c] # None) /\ saved
                THEN "verify" ELSE "abort"
    /\ ops' = Count("emit")
    /\ UNCHANGED <<S, oklabs, buf, available, kdtree, color_idx, cur, todo>>

(* all_colors: the flattened grid, sorted. *)
AllColors == { buf[c][1] : c \in { d \in Cells(S) : buf[d] # None } }

FilledCount == Cardinality({ c \in Cells(S) : buf[c] # None })

(* The integrity check without the comparison of the sorted values. *)
VerifyLengthOnly ==
    /\ pc = "verify"
    /\ pc' = IF FilledCount = S * S THEN "done" ELSE "abort"
    /\ UNCHANGED <<S, oklabs, buf, available, kdtree, color_idx, cur, todo, ops>>

(* Lines 113-118: the integrity check. *)
Verify ==
    /\ pc = "verify"
    /\ pc' = IF /\ FilledCount = S * S
                /\ Cardinality(AllColors) = FilledCount
                /\ AllColors = 0..(FilledCount - 1)
             THEN "done" ELSE "abort"
    /\ UNCHANGED <<S, oklabs, buf, available, kdtree, color_idx, cur, todo, ops>>

Next ==
    \/ Choose
    \/ Remove
    \/ SetCell
    \/ Upsert
    \/ EndIteration
    \/ Emit
    \/ Verify

Spec == Init /\ [][Next]_vars

(* The catalog in ramp order, on every side. *)
InitLive ==
    \E s \in Sides : InitWith(s, [i \in 1..(s * s) |-> srgb_to_oklab(Ramp(s * s)[i])])

(* main is one sequential thread: a step that can be taken is taken. *)
SpecLive == InitLive /\ [][Next]_vars /\ WF_vars(Next)

(* Any catalog length within MaxSlack of the grid's capacity. *)
InitCap ==
    \E s \in Sides :
        \E n \in { m \in (s * s - MaxSlack)..(s * s + MaxSlack) : m >= 1 } :
            \E colors \in Catalogs(n) : InitWith(s, colors)

SpecCap == InitCap /\ [][Next]_vars

(* A grid wide enough to have cells that are no neighbour of the center,   *)
(* with the catalog in ramp order.                                         *)
WideShuffles(n) == { [i \in 1..n |-> i] }

WideCatalogs(n) ==
    { [i \in 1..n |-> srgb_to_oklab(Ramp(n)[p[i]])] : p \in WideShuffles(n) }

InitWide ==
    \E s \in 1..WideS : \E colors \in WideCatalogs(s * s) : InitWith(s, colors)

SpecWide == InitWide /\ [][Next]_vars

----------------------------------------------------------------------------
(* The packed key's way through the index, over the whole coordinate range *)
(* of the source's grid (side 1 << 12): line 103 packs, line 92 unpacks.   *)

PackCoords ==
    (0..PackEdge)
    \cup {Shl(1, ShiftBits - 1) - 1, Shl(1, ShiftBits - 1)}
    \cup ((Shl(1, ShiftBits) - 1 - PackEdge)..(Shl(1, ShiftBits) - 1))

Origin == <<0, 0, 0>>

InitPack ==
    \E x \in PackCoords, y \in PackCoords :
        /\ S = Shl(1, ShiftBits)
        /\ oklabs = <<Origin>>
        /\ buf = <<>>
        /\ available = <<>>
        /\ kdtree = EmptyBag
        /\ color_idx = 0
        /\ cur = <<x, y>>
        /\ todo = <<>>
        /\ pc = "pack"
        /\ ops = NoOps

(* Lines 100-103 for a cell not yet in the frontier. *)
PackKey ==
    /\ pc = "pack"
    /\ available' = [c \in {cur} |-> Origin]
    /\ kdtree' = Reindex(kdtree, None, Origin, coord_to_int(cur[1], cur[2]))
    /\ pc' = "unpack"
    /\ ops' = Count("insert")
    /\ UNCHANGED <<S, oklabs, buf, color_idx, cur, todo>>

(* Line 92. *)
UnpackKey ==
    /\ pc = "unpack"
    /\ \E i \in NearestItems(kdtree, oklabs[1]) : cur' = int_to_coord(i)
    /\ pc' = "unpacked"
    /\ ops' = Count("query")
    /\ UNCHANGED <<S, oklabs, buf, available, kdtree, color_idx, todo>>

NextPack ==
    \/ PackKey
    \/ UnpackKey

SpecPack == InitPack /\ [][NextPack]_vars

----------------------------------------------------------------------------
(* Vocabulary of the properties *)

Filled(c) == buf[c] # None

Adjacent(c, d) ==
    /\ c # d
    /\ c[1] - d[1] \in {-1, 0, 1}
    /\ c[2] - d[2] \in {-1, 0, 1}

FilledAround(c) == { d \in Cells(S) : Adjacent(c, d) /\ Filled(d) }

RECURSIVE SumOver(_, _)
SumOver(cells, axis) ==
    IF cells = {} THEN 0
    ELSE LET d == CHOOSE e \in cells : TRUE
         IN  oklabs[buf[d][1] + 1][axis] + SumOver(cells \ {d}, axis)

Key(c) == coord_to_int(c[1], c[2])

(* The grid holds every catalog index exactly once and no cell is empty. *)
GridIsBijection ==
    /\ \A c \in Cells(S) : Filled(c)
    /\ \A c \in Cells(S) : buf[c][1] \in 0..(N - 1)
    /\ \A v \in 0..(N - 1) : Cardinality({ c \in Cells(S) : buf[c] = Some(v) }) = 1

----------------------------------------------------------------------------
(* C1: with N = S * S, once the placement loop has run through the whole   *)
(* catalog, every grid cell is filled and the grid values are exactly      *)
(* 0..N-1, each in exactly one cell, whatever the order and the tie-breaks.*)
C1_FinalGridIsBijection == color_idx = N => GridIsBijection

C1_Witness == color_idx = N /\ S = MaxS /\ pc = "loop" /\ GridIsBijection

(* C2: at every point between the frontier operations the index holds      *)
(* exactly one entry per key of the map, no other entry, and the point of  *)
(* each entry is the map's current desired colour of that cell.            *)
C2_IndexMirrorsMap ==
    /\ BagToSet(kdtree) = { <<available[c], Key(c)>> : c \in DOMAIN available }
    /\ \A e \in BagToSet(kdtree) : kdtree[e] = 1
    /\ \A c \in DOMAIN available :
          Cardinality({ e \in BagToSet(kdtree) : e[2] = Key(c) }) = 1

(* An upsert has replaced a frontier cell's desired colour by another one. *)
C2_Witness ==
    /\ pc = "upsert"
    /\ \E c \in DOMAIN available :
          /\ Cardinality(FilledAround(c)) >= 2
          /\ \E d \in FilledAround(c) : available[c] # oklabs[buf[d][1] + 1]
          /\ <<available[c], Key(c)>> \in BagToSet(kdtree)

(* C3: a filled cell is never written again, and the cell chosen is empty  *)
(* when buf[x][y] is assigned.                                             *)
C3_FilledCellsAreFinal ==
    [][ /\ (pc = "set" => ~Filled(cur))
        /\ \A c \in Cells(S) : Filled(c) => buf'[c] = buf[c] ]_vars

(* A cell the nearest-neighbour query chose has just been assigned. *)
C3_Witness == pc = "upsert" /\ color_idx = N - 1 /\ S = MaxS /\ Filled(cur)

(* C4: between iterations every frontier cell's desired colour is the      *)
(* per-axis mean of the colours of its filled 8-neighbours, of which there *)
(* is at least one; target_color's unwrap never fails.                     *)
C4_DesiredIsMeanOfFilled ==
    /\ pc = "loop" =>
          \A c \in DOMAIN available :
              /\ FilledAround(c) # {}
              /\ \A axis \in 1..3 :
                    available[c][axis] * Cardinality(FilledAround(c))
                        = SumOver(FilledAround(c), axis)
    /\ (pc = "upsert" /\ todo # <<>>) =>
          target_color(Head(todo)[1], Head(todo)[2], buf, oklabs, S) # None

(* A frontier cell whose filled neighbours have three different colours. *)
C4_Witness ==
    /\ pc = "loop"
    /\ \E c \in DOMAIN available :
          Cardinality({ oklabs[buf[d][1] + 1] : d \in FilledAround(c) }) >= 3

IsBorder(k) == k = 0 \/ k = S - 1

IsCorner(c) == IsBorder(c[1]) /\ IsBorder(c[2])

IsEdge(c) == IsBorder(c[1]) # IsBorder(c[2])

(* neighbors yields cells of the grid other than (x, y), each once. *)
NeighborsWellFormed(c) ==
    LET ns == neighbors(c[1], c[2], S)
    IN  /\ \A k \in 1..Len(ns) : InGrid(ns[k], S) /\ ns[k] # c
        /\ Cardinality({ ns[k] : k \in 1..Len(ns) }) = Len(ns)

NeighborCount(c) == Len(neighbors(c[1], c[2], S))

(* C5 as stated: in bounds, never (x, y), no repeats; 3 cells for a        *)
(* corner, 5 for an edge cell, 8 for an interior cell, on every side S.    *)
C5_AsStated ==
    \A c \in Cells(S) :
        /\ NeighborsWellFormed(c)
        /\ NeighborCount(c) = IF IsCorner(c) THEN 3 ELSE IF IsEdge(c) THEN 5 ELSE 8

(* C5, amended: the counts 3, 5 and 8 hold on every grid of side S >= 2;   *)
(* on the grid of side 1 the only cell has no neighbour.                   *)
C5_NeighborsInBoundsAndCounted ==
    \A c \in Cells(S) :
        /\ NeighborsWellFormed(c)
        /\ S >= 2 =>
              NeighborCount(c) = IF IsCorner(c) THEN 3 ELSE IF IsEdge(c) THEN 5 ELSE 8
        /\ S = 1 => NeighborCount(c) = 0

(* The walk around an edge cell that is no corner has yielded 5 cells. *)
C5_Witness ==
    /\ S = MaxS
    /\ pc = "upsert"
    /\ IsEdge(cur)
    /\ NeighborCount(cur) = 5
    /\ \E c \in Cells(S) : ~IsCorner(c) /\ ~IsEdge(c) /\ NeighborCount(c) = 8

(* C6: a coordinate packed into the index's item comes back unchanged, and *)
(* no other coordinate of the range packs to the same item.                *)
C6_PackRoundTrip ==
    /\ pc = "unpacked" => cur \in DOMAIN available
    /\ pc = "unpack" =>
          \A x \in PackCoords, y \in PackCoords :
              <<x, y>> \notin DOMAIN available =>
                  \A e \in BagToSet(kdtree) : e[2] # coord_to_int(x, y)

(* A coordinate with the highest y of the range has been through the index. *)
C6_Witness ==
    /\ pc = "unpacked"
    /\ cur = <<Shl(1, ShiftBits - 1), Shl(1, ShiftBits) - 1>>

(* C7 as stated: with S * S < N nothing is written: no grid cell, no       *)
(* frontier entry.                                                         *)
C7_RejectedBeforeLoop ==
    S * S < N =>
        /\ \A c \in Cells(S) : ~Filled(c)
        /\ available = <<>>
        /\ kdtree = EmptyBag

(* C8 as stated: assigning to a cell that is already filled is fatal and   *)
(* leaves the cell's value as it was.                                      *)
C8_DoubleFillIsFatal ==
    [][ (pc = "set" /\ InGrid(cur, S) /\ Filled(cur))
            => (pc' = "abort" /\ buf' = buf) ]_vars

(* C9: the process exits successfully only with a grid that is a bijection *)
(* onto 0..N-1; with any other final grid, emission or the integrity check *)
(* aborts.                                                                 *)
C9_SuccessOnlyIfBijection ==
    [][ /\ pc' = "done" => GridIsBijection'
        /\ (pc = "verify" /\ ~GridIsBijection) => pc' = "abort"
        /\ (pc = "loop" /\ color_idx = N /\ \E c \in Cells(S) : ~Filled(c))
              => pc' = "abort" ]_vars

(* The integrity check is about to decide on a grid that is full but no    *)
(* bijection.                                                              *)
C9_Witness ==
    /\ pc = "verify"
    /\ S = MaxS
    /\ \A c \in Cells(S) : Filled(c)
    /\ ~GridIsBijection

Center == <<S \div 2, S \div 2>>

(* The catalog colour of the iteration under way. *)
Lab == oklabs[color_idx + 1]

(* C11: for every iteration i > 0 the cell chosen is in the frontier and   *)
(* its stored desired colour is at minimal squared distance from colour    *)
(* i's coordinate among all frontier cells.                                *)
C11_ChosenIsNearestFrontierCell ==
    (pc = "remove" /\ color_idx > 0) =>
        /\ cur \in DOMAIN available
        /\ \A d \in DOMAIN available :
              squared_euclidean(Lab, available[cur])
                  <= squared_euclidean(Lab, available[d])

(* A choice among frontier cells at three or more different distances. *)
C11_Witness ==
    /\ pc = "remove"
    /\ color_idx > 0
    /\ Cardinality({ squared_euclidean(Lab, available[d]) : d \in DOMAIN available }) >= 3

(* The empty cells that have a filled 8-neighbour. *)
EmptyBesideFilled == { c \in Cells(S) : ~Filled(c) /\ FilledAround(c) # {} }

(* C12: between iterations the frontier's key set is exactly the set of    *)
(* empty cells with a filled 8-neighbour; after the seed it is the center's *)
(* in-bounds neighbours, each with colour 0's coordinate as desired colour. *)
C12_FrontierIsEmptyBesideFilled ==
    pc = "loop" =>
        /\ DOMAIN available = EmptyBesideFilled
        /\ color_idx = 1 =>
              /\ DOMAIN available = { c \in Cells(S) : Adjacent(c, Center) }
              /\ \A c \in DOMAIN available : available[c] = oklabs[1]

(* Several cells are filled and some empty cell, having no filled          *)
(* neighbour, is outside the frontier.                                     *)
C12_Witness ==
    /\ pc = "loop"
    /\ S = WideS
    /\ color_idx >= 3
    /\ \E c \in Cells(S) : ~Filled(c) /\ c \notin DOMAIN available
    /\ available # <<>>

(* C13: with S * S = N, whenever an iteration 0 < i < N is about to issue   *)
(* its nearest-neighbour query, the map and the index are not empty.       *)
C13_QueryNeverOnEmptyFrontier ==
    (pc = "loop" /\ 0 < color_idx /\ color_idx < N) =>
        /\ DOMAIN available # {}
        /\ BagToSet(kdtree) # {}

(* The last query of a run: one empty cell is left, and it is in the index. *)
C13_Witness ==
    /\ pc = "loop"
    /\ S = WideS
    /\ color_idx = N - 1
    /\ Cardinality(BagToSet(kdtree)) = 1

(* C14: iteration 0 chooses the center without a nearest-neighbour query,  *)
(* its removal step finds the frontier empty and changes nothing, and it   *)
(* writes catalog index 0 to the center.                                   *)
C14_SeedAtCenterWithoutQuery ==
    color_idx = 0 =>
        /\ ops.query = 0
        /\ ops.remove = 0
        /\ pc \in {"remove", "set", "upsert"} => cur = Center
        /\ pc \in {"remove", "set"} => (available = <<>> /\ kdtree = EmptyBag)
        /\ pc = "upsert" =>
              /\ buf[Center] = Some(0)
              /\ \A c \in Cells(S) : Filled(c) => c = Center

(* The seed has just been written on a grid whose center is not (0, 0). *)
C14_Witness ==
    /\ color_idx = 0
    /\ pc = "upsert"
    /\ S = MaxS
    /\ buf[Center] = Some(0)
    /\ ops.set = 1

(* C15: with S * S = N the placement loop ends, after exactly N            *)
(* iterations with one placement each, and then the frontier is exhausted: *)
(* the map and the index are both empty.                                   *)
C15_LoopEndsWithFrontierExhausted ==
    /\ [](/\ color_idx <= N
          /\ pc = "loop" => ops.set = color_idx
          /\ color_idx = N =>
                (ops.set = N /\ available = <<>> /\ kdtree = EmptyBag))
    /\ <>(pc = "loop" /\ color_idx = N)

(* The loop is over on the largest grid: N placements, nothing left. *)
C15_Witness ==
    /\ pc = "loop"
    /\ S = MaxS
    /\ color_idx = N
    /\ ops.set = N
    /\ ops.insert > N
    /\ available = <<>>

(* C16: emission happens once, only after all N placements; the integrity  *)
(* check runs only after emission; and no step after the end of the        *)
(* placement loop modifies the grid.                                       *)
C16_EmitOnceAfterLoopThenVerify ==
    [][ /\ ops'.emit <= 1
        /\ ops'.emit # ops.emit =>
              (pc = "loop" /\ color_idx = N /\ ops.set = N)
        /\ pc \in {"verify", "done"} => ops.emit = 1
        /\ pc' \in {"verify", "done"} => ops'.emit = 1
        /\ color_idx = N => buf' = buf ]_vars

(* A run that has emitted once and passed the integrity check. *)
C16_Witness ==
    /\ pc = "done"
    /\ S = MaxS
    /\ ops.emit = 1
    /\ ops.set = N

(* C17: with S = 1 and N = 1 the only colour is placed at the center, no   *)
(* frontier entry is ever inserted or removed, no nearest-neighbour query  *)
(* is made, and the integrity check passes.                                *)
C17_SingleSeedRun ==
    [][ (S = 1 /\ N = 1) =>
          /\ ops'.query = 0 /\ ops'.insert = 0 /\ ops'.remove = 0
          /\ available' = <<>> /\ kdtree' = EmptyBag
          /\ pc = "set" => (cur = Center /\ buf' = [c \in Cells(S) |-> Some(0)])
          /\ pc = "verify" => pc' = "done" ]_vars

(* The single-seed run has passed its integrity check. *)
C17_Witness ==
    /\ S = 1
    /\ N = 1
    /\ pc = "done"
    /\ buf[Center] = Some(0)
    /\ ops = [NoOps EXCEPT !.set = 1, !.emit = 1]

(* What the map holds for cell c, and how often the index holds entry e. *)
MapEntry(map, c) == IF c \in DOMAIN map THEN Some(map[c]) ELSE None

Copies(tree, e) == IF e \in BagToSet(tree) THEN tree[e] ELSE 0

(* The frontier entries the step under way may change. *)
MayChange(c) ==
    \/ (pc = "remove" /\ c = cur)
    \/ (pc = "upsert" /\ Adjacent(c, cur) /\ ~Filled(c))

(* C18: a commit step for (x, y) changes the grid at (x, y) only, and the  *)
(* frontier, in the map and in the index, at (x, y) and at its empty       *)
(* 8-neighbours only; no other step changes either.                        *)
C18_CommitTouchesOnlyCellAndNeighbours ==
    [][ /\ \A c \in Cells(S) : buf'[c] # buf[c] => (pc = "set" /\ c = cur)
        /\ \A c \in DOMAIN available \cup DOMAIN available' :
              MapEntry(available', c) # MapEntry(available, c) => MayChange(c)
        /\ \A e \in BagToSet(kdtree) \cup BagToSet(kdtree') :
              Copies(kdtree', e) # Copies(kdtree, e) =>
                  \E c \in Cells(S) : e[2] = Key(c) /\ MayChange(c) ]_vars

(* A commit step is over and the frontier holds a cell that is no          *)
(* neighbour of the cell just filled.                                      *)
C18_Witness ==
    /\ pc = "upsert"
    /\ todo = <<>>
    /\ S = WideS
    /\ color_idx > 0
    /\ \E c \in DOMAIN available : ~Adjacent(c, cur)
    /\ \E c \in DOMAIN available : Adjacent(c, cur)

FilledCells == { c \in Cells(S) : Filled(c) }

(* The cells of filled reachable from seen through neighbours in filled,   *)
(* front being the cells of seen found last.                               *)
RECURSIVE Reach(_, _, _)
Reach(front, seen, filled) ==
    LET next == { d \in filled \ seen : \E c \in front : Adjacent(c, d) }
    IN  IF next = {} THEN seen ELSE Reach(next, seen \cup next, filled)

(* C19: from the seed's placement on, the filled cells contain the center  *)
(* and are 8-connected: at each loop head every filled cell is reachable   *)
(* from the center through filled cells, every cell chosen for i > 0 is    *)
(* empty with a filled 8-neighbour when it is assigned, and it has that    *)
(* neighbour once assigned (the steps in between leave the grid alone).    *)
C19_FilledRegionConnected ==
    LET filled == FilledCells
    IN  /\ filled # {} => Center \in filled
        /\ pc = "loop" => Reach({Center} \cap filled, {Center} \cap filled, filled) = filled
        /\ (pc = "set" /\ color_idx > 0) => (~Filled(cur) /\ FilledAround(cur) # {})
        /\ (pc = "upsert" /\ color_idx > 0) => (Filled(cur) /\ FilledAround(cur) # {})

(* A placement on a cell that is no neighbour of the center. *)
C19_Witness ==
    /\ pc = "upsert"
    /\ S = WideS
    /\ ~Adjacent(cur, Center)
    /\ cur # Center
    /\ Filled(cur)
    /\ \E c \in Cells(S) : ~Filled(c)

====
